---- MODULE Spec2Model ----
(***************************************************************************)
(* Model of the ChatStream backend (src/backend/main.py): the webhook      *)
(* handlers, the ConversationManager, the WebSocketManager, the            *)
(* background processing_task and the /ws connection handler.              *)
(*                                                                         *)
(* Scheduling: everything runs on one asyncio event loop, so a coroutine   *)
(* is interrupted only at an await that suspends.  Every action below is   *)
(* one such atomic block: from the point where a coroutine is resumed to   *)
(* its next suspension (asyncio.sleep, websocket.accept, send_text).       *)
(*                                                                         *)
(* Time: `now` is the wall clock in units of 10 seconds.  All clock        *)
(* readings of one atomic block give the same value.  datetime.isoformat   *)
(* and datetime.fromisoformat are exact inverses on the naive datetimes    *)
(* the code produces; an ISO string for time t is the pair <<"iso", t>>.   *)
(*                                                                         *)
(* JSON values are tagged tuples: <<"str", s>>, <<"num", n>>, <<"null">>,  *)
(* <<"list">>; a key a payload does not have maps to <<"absent">>.         *)
(***************************************************************************)
EXTENDS Integers, Sequences, FiniteSets, TLC

\* ------------------------------------------------------------ bounds
MaxTime == 13       \* the clock stops here
MaxPostTime == 1    \* webhook calls arrive while now <= MaxPostTime
MaxPosts == 3       \* webhook calls (conversation + ai-response) in a run
MaxStorePosts == 2  \* webhook calls in the runs that take any payload
MaxSockets == 2     \* WebSocket clients that connect in a run
MaxUserMsgs == 1    \* calls of /webhook/user-message in a run
InboxCap == 2       \* messages kept per socket: the first InboxCap written to it
MaxHubPosts == 1    \* webhook calls in a run with WebSocket clients
MaxHubTime == 1     \* the clock stops here in the runs with WebSocket clients
MaxLoopTime == 3    \* the clock stops here in the runs that check progress
MaxUserPosts == 1   \* AI-response calls in the runs with user messages
MaxStatsTime == 2   \* the clock stops here in the runs about the statistics
MaxReadPosts == 1   \* webhook calls in the runs with the REST reads
MaxBeatTime == 3    \* the clock stops here in the runs with heartbeats
MaxStopTime == 3    \* the clock stops here in the runs with a shutdown
MaxStopPosts == 1   \* webhook calls in the runs with a shutdown
MaxStopSockets == 1 \* WebSocket clients in the runs with a shutdown
MaxReplyPosts == 2  \* webhook calls in the runs with structured replies
MaxReplyTime == 1   \* the clock stops here in those runs
MaxSenderPosts == 2 \* webhook calls in the runs with the sender scripts
MaxSenderTime == 2  \* the clock stops here in those runs
MaxRetryPosts == 2  \* webhook calls in the runs with a late second call

\* ------------------------------------------------- program constants
TTL == 12                   \* timedelta(minutes=2), in clock units
POLLING_INTERVAL == 1       \* 10 seconds
WEBSOCKET_HEARTBEAT == 3    \* 30 seconds

\* ------------------------------------------------------- JSON values
Str(s) == <<"str", s>>
Num(n) == <<"num", n>>
Null == <<"null">>
List == <<"list">>
Absent == <<"absent">>
None == <<"none">>

IsNum(v) == v[1] = "num"
IsStr(v) == v[1] = "str"
\* Python: hash(v) raises TypeError for a list
Hashable(v) == v[1] # "list"
\* Python: v[:50] raises TypeError unless v is a string or a list
Sliceable(v) == v[1] \in {"str", "list"}

IsoFormat(t) == <<"iso", t>>
FromIsoFormat(s) == s[2]

\* dict.get(key, default)
Get(d, key, default) == IF d[key] = Absent THEN default ELSE d[key]

\* f"{prefix}_{int(datetime.now().timestamp() * 1000)}"
GenId(prefix, t) == Str(prefix \o "_" \o ToString(t))

VARIABLES
    now,                    \* wall clock
    live_requests,          \* ConversationManager.live_requests
    live_messages,          \* ConversationManager.live_messages
    processed_request_ids,  \* ConversationManager.processed_request_ids
    stats,                  \* ConversationManager.stats
    active_connections,     \* WebSocketManager.active_connections
    poll,                   \* processing_task: its suspension point and locals
    um,                     \* the webhook_user_message call in progress, if any
    ws,                     \* per socket: where its websocket_endpoint is suspended
    dead,                   \* the sockets whose client has gone: a send to them raises
    stalled,                \* the sockets whose client has stopped reading: a send
                            \* to them stays pending
    inbox,                  \* per socket: the first messages written to it, in order
    posts,                  \* number of webhook calls so far
    last_response,          \* the HTTP answer of the latest webhook call
    pass,                   \* number of passes processing_task has begun
    batch,                  \* what process_webhook_data returned in the latest pass
    drained,                \* the requests its for loop completed in that pass
    error_pass,             \* the number of the latest pass that raised, 0 if none
    published,              \* the messages the latest pass handed to broadcast(),
                            \* each with the sockets it was written to
    pass_conns,             \* active_connections when the latest pass began
    admitted,               \* history: the events put into live_messages, with the time
    last_read,              \* the latest result of GET /messages/live
    last_stats,             \* the latest result of GET /stats
    lifespan,               \* where lifespan is: "running" at its yield, "stopped"
                            \* when its finally clause has completed
    current_messages        \* processing_task's local current_messages: the list
                            \* get_live_messages returned to it, as it is now

vars == <<now, live_requests, live_messages, processed_request_ids, stats,
          active_connections, poll, um, ws, dead, stalled, inbox, posts, last_response,
          pass, batch, drained, error_pass, published, pass_conns, admitted,
          last_read, last_stats, lifespan, current_messages>>

\* what only the start of a pass sets
passVars == <<pass, batch, drained, error_pass, pass_conns>>

\* ------------------------------------------- ConversationManager
\* Sweep with the comparison turned round at the boundary: an event is kept at
\* the instant it expires
SweepKeepsBoundary(msgs) ==
    SelectSeq(msgs, LAMBDA m : FromIsoFormat(m.expires_at) >= now)

\* a comprehension that returns the remaining events newest first
SweepNewestFirst(msgs) ==
    LET kept == SelectSeq(msgs, LAMBDA m : FromIsoFormat(m.expires_at) > now)
    IN  [i \in 1..Len(kept) |-> kept[Len(kept) + 1 - i]]

\* the list comprehension of add_live_messages and get_live_messages
Sweep(msgs) ==
    SelectSeq(msgs, LAMBDA m : FromIsoFormat(m.expires_at) > now)

\* JSON objects and arrays as a reply may hold them: an object is a function
\* from MapKeys to values, Absent for a key it does not have
MapKeys == {"choices", "content", "message", "text"}
NoKeys == [k \in MapKeys |-> Absent]
Map(f) == <<"map", f>>
Array(seq) == <<"array", seq>>
IsMap(v) == v[1] = "map"
\* `key in v` for an object v
Has(v, key) == v[2][key] # Absent
\* str(v): v itself for a string, else the string that is the text of v
StrOf(v) == IF IsStr(v) THEN v ELSE <<"repr", v>>

\* extract_ai_response, for replies whose choices is a list of objects and
\* whose message is an object: none of its lookups raises
extract_ai_response(response_data) ==
    IF IsMap(response_data)
    THEN LET d == response_data[2]
             hasChoice == Has(response_data, "choices") /\ Len(d.choices[2]) > 0
             choice == d.choices[2][1]
         IN  IF hasChoice /\ Has(choice, "message")
                          /\ Has(choice[2].message, "content")
             THEN choice[2].message[2].content
             ELSE IF hasChoice /\ Has(choice, "text")
             THEN choice[2].text
             ELSE IF Has(response_data, "content")
             THEN d.content
             ELSE IF Has(response_data, "message")
             THEN StrOf(d.message)
             ELSE StrOf(response_data)
    ELSE IF IsStr(response_data) THEN response_data
    ELSE StrOf(response_data)

\* the conversation_event literal of process_webhook_data
\* the event without the default of metadata.status
ConversationEventStatusAsGiven(request_data, request_id) ==
    [ id |-> request_id,
      type |-> "new_message",
      timestamp |-> Get(request_data, "timestamp", IsoFormat(now)),
      user_message |-> Get(request_data, "user_message", Str("")),
      ai_response |-> Get(request_data, "ai_response", Str("")),
      latency_ms |-> Get(request_data, "latency_ms", Num(0)),
      status |-> request_data.status,
      expires_at |-> IsoFormat(now + TTL) ]

ConversationEvent(request_data, request_id) ==
    [ id |-> request_id,
      type |-> "new_message",
      timestamp |-> Get(request_data, "timestamp", IsoFormat(now)),
      user_message |-> Get(request_data, "user_message", Str("")),
      ai_response |-> Get(request_data, "ai_response", Str("")),
      latency_ms |-> Get(request_data, "latency_ms", Num(0)),
      status |-> Get(request_data, "status", Str("success")),
      expires_at |-> IsoFormat(now + TTL) ]

RequestId(request_data) == Get(request_data, "id", GenId("live", now))

\* ProcessLoop without the membership test: every request becomes an event
RECURSIVE ProcessLoopNoDedup(_, _, _)
ProcessLoopNoDedup(reqs, processed, new_conversations) ==
    IF reqs = <<>>
    THEN [ok |-> TRUE, processed |-> processed, new |-> new_conversations,
          left |-> 0]
    ELSE LET request_data == Head(reqs)
             request_id == RequestId(request_data)
         IN  IF ~Hashable(request_id)
             THEN [ok |-> FALSE, processed |-> processed, new |-> <<>>,
                   left |-> Len(reqs)]
             ELSE ProcessLoopNoDedup(Tail(reqs), processed \cup {request_id},
                      Append(new_conversations,
                             ConversationEvent(request_data, request_id)))

\* ProcessLoop without `self.processed_request_ids.add(request_id)`
RECURSIVE ProcessLoopNoMark(_, _, _)
ProcessLoopNoMark(reqs, processed, new_conversations) ==
    IF reqs = <<>>
    THEN [ok |-> TRUE, processed |-> processed, new |-> new_conversations,
          left |-> 0]
    ELSE LET request_data == Head(reqs)
             request_id == RequestId(request_data)
         IN  IF ~Hashable(request_id)
             THEN [ok |-> FALSE, processed |-> processed, new |-> <<>>,
                   left |-> Len(reqs)]
             ELSE IF request_id \notin processed
             THEN ProcessLoopNoMark(Tail(reqs), processed,
                      Append(new_conversations,
                             ConversationEvent(request_data, request_id)))
             ELSE ProcessLoopNoMark(Tail(reqs), processed, new_conversations)

\* The for loop of process_webhook_data over `reqs`, with the ids processed so
\* far and the events built so far.  `request_id not in processed_request_ids`
\* raises TypeError for an unhashable id: the except clause returns [] and the
\* reset of live_requests is not reached (ok = FALSE); `left` is the number of
\* requests the loop did not complete.
RECURSIVE ProcessLoop(_, _, _)
ProcessLoop(reqs, processed, new_conversations) ==
    IF reqs = <<>>
    THEN [ok |-> TRUE, processed |-> processed, new |-> new_conversations,
          left |-> 0]
    ELSE LET request_data == Head(reqs)
             request_id == RequestId(request_data)
         IN  IF ~Hashable(request_id)
             THEN [ok |-> FALSE, processed |-> processed, new |-> <<>>,
                   left |-> Len(reqs)]
             ELSE IF request_id \notin processed
             THEN ProcessLoop(Tail(reqs), processed \cup {request_id},
                      Append(new_conversations,
                             ConversationEvent(request_data, request_id)))
             ELSE ProcessLoop(Tail(reqs), processed, new_conversations)

\* a dedup set that forgets the ids of the events that have expired
process_webhook_dataEvicts ==
    ProcessLoop(live_requests,
                processed_request_ids
                    \cap {Sweep(live_messages)[i].id : i \in 1..Len(Sweep(live_messages))},
                <<>>)

process_webhook_data == ProcessLoop(live_requests, processed_request_ids, <<>>)

\* the reset done whether or not the loop came to its end
DrainAlways(r) == <<>>

\* `self.live_requests = []` after the loop, not reached when the loop raised
Drain(r) == IF r.ok THEN <<>> ELSE live_requests

\* sum and count of a list of latencies
RECURSIVE SumSeq(_)
SumSeq(s) == IF s = <<>> THEN 0 ELSE Head(s)[2] + SumSeq(Tail(s))

\* round(sum(response_times) / len(response_times), 2), in hundredths
Mean100(response_times) ==
    (200 * SumSeq(response_times) + Len(response_times))
        \div (2 * Len(response_times))

\* `msg["metadata"]["latency_ms"] > 0` raises TypeError unless it is a number
LatencyRaises(messages) == \E i \in 1..Len(messages) : ~IsNum(messages[i].latency_ms)

\* the comprehension without its filter: every latency is taken
ResponseTimesUnfiltered(messages) ==
    [i \in 1..Len(messages) |-> messages[i].latency_ms]

ResponseTimes(messages) ==
    LET lat == [i \in 1..Len(messages) |-> messages[i].latency_ms]
    IN  SelectSeq(lat, LAMBDA v : v[2] > 0)

\* add_live_messages with `=` for `+=` on total_conversations
add_live_messagesAssignsTotal(messages) ==
    LET lm == Sweep(live_messages \o messages)
        s1 == [stats EXCEPT !.total_conversations = Len(messages),
                            !.last_activity = IsoFormat(now),
                            !.messages_per_minute = Len(lm)]
    IN  IF LatencyRaises(messages)
        THEN [raised |-> TRUE, live |-> lm, stats |-> s1]
        ELSE LET rt == ResponseTimes(messages)
             IN  [raised |-> FALSE, live |-> lm,
                  stats |-> IF rt # <<>>
                            THEN [s1 EXCEPT !.average_response_time = Mean100(rt)]
                            ELSE s1]

\* add_live_messages(messages), messages non-empty: the new live list, the new
\* stats, and whether the response_times comprehension raised
add_live_messages(messages) ==
    LET lm == Sweep(live_messages \o messages)
        s1 == [stats EXCEPT !.total_conversations = @ + Len(messages),
                            !.last_activity = IsoFormat(now),
                            !.messages_per_minute = Len(lm)]
    IN  IF LatencyRaises(messages)
        THEN [raised |-> TRUE, live |-> lm, stats |-> s1]
        ELSE LET rt == ResponseTimes(messages)
             IN  [raised |-> FALSE, live |-> lm,
                  stats |-> IF rt # <<>>
                            THEN [s1 EXCEPT !.average_response_time = Mean100(rt)]
                            ELSE s1]

\* the keys of ConversationManager.stats
StatsKeys ==
    {"total_conversations", "messages_per_minute", "average_response_time",
     "last_activity"}

\* get_stats() with `return self.stats`: the caller gets the stored dict itself
get_statsStored(s) == [stored |-> TRUE, dict |-> s]

\* get_stats(): self.stats.copy(), a new dict with the items of the stored one;
\* `stored` tells whether the dict returned is the object self.stats refers to
get_stats(s) == [stored |-> FALSE, dict |-> s]

\* ---------------------------------------------- WebSocketManager
Sockets == 1..MaxSockets

\* a removal that takes the last connection when c is not in the list
disconnectPops(conns, c) ==
    IF \E i \in 1..Len(conns) : conns[i] = c
    THEN SelectSeq(conns, LAMBDA x : x # c)
    ELSE SubSeq(conns, 1, Len(conns) - 1)

\* list.remove(c), guarded by `if websocket in self.active_connections`
disconnect(conns, c) ==
    IF \E i \in 1..Len(conns) : conns[i] = c
    THEN LET k == CHOOSE i \in 1..Len(conns) :
                      conns[i] = c /\ \A j \in 1..(i - 1) : conns[j] # c
         IN  SubSeq(conns, 1, k - 1) \o SubSeq(conns, k + 1, Len(conns))
    ELSE conns

\* `for connection in disconnected: self.disconnect(connection)`
RECURSIVE DisconnectAll(_, _)
DisconnectAll(conns, disconnected) ==
    IF disconnected = <<>> THEN conns
    ELSE DisconnectAll(disconnect(conns, Head(disconnected)), Tail(disconnected))

\* send_text(c, ...) raises when the client of c has gone
SendRaises(c) == c \in dead

\* the message is written to the socket when send_text is called
Deliver(box, c, msg) ==
    IF SendRaises(c) \/ Len(box[c]) >= InboxCap THEN box
    ELSE [box EXCEPT ![c] = Append(@, msg)]

\* the sockets a send_text to c writes to
Written(c) == IF SendRaises(c) THEN {} ELSE {c}

\* The locals of one broadcast() call suspended in send_text: the message, the
\* position of the list iterator, the `disconnected` list; and as history the
\* list at the time of the call and the sockets send_text was called for.
NoBroadcast ==
    [msg |-> <<"none", <<>>>>, i |-> 0, disconnected |-> <<>>, start |-> <<>>, attempted |-> <<>>]

\* a loop that sends to the socket before conns[i] once more when the send to
\* it failed
BroadcastSendRetries(b, conns, i) ==
    LET c == IF i > 1 /\ SendRaises(conns[i - 1]) THEN conns[i - 1] ELSE conns[i]
    IN  [b EXCEPT !.i = i,
                  !.disconnected = IF SendRaises(c) THEN Append(@, c) ELSE @,
                  !.attempted = Append(@, c)]

\* the body of the for loop for conns[i]: send_text, and the except clause
BroadcastSend(b, conns, i) ==
    [b EXCEPT !.i = i,
              !.disconnected = IF SendRaises(conns[i]) THEN Append(@, conns[i]) ELSE @,
              !.attempted = Append(@, conns[i])]

\* broadcast(msg) up to its first suspension; conns is not empty
BroadcastStart(msg, conns) ==
    BroadcastSend([NoBroadcast EXCEPT !.msg = msg, !.start = conns], conns, 1)

\* the send_text a broadcast is suspended in is still pending: the client does
\* not take the data, and nothing in broadcast() limits the wait
SendPending(b) == b.attempted[Len(b.attempted)] \in stalled

\* the list iterator after a send: is there a next connection
BroadcastHasNext(b, conns) == b.i + 1 <= Len(conns)

\* ------------------------------------------------ processing_task
\* A message is the pair of its "type" field and the rest of it.
MsgType(msg) == msg[1]
MsgData(msg) == msg[2]
StatsUpdate(s) == <<"stats_update", get_stats(s).dict>>
LiveUpdate(lm) == <<"live_messages_update", lm>>
NewMessage(ev) == <<"new_message", ev>>

\* a pass that broadcasts the stats after every batch, an empty one included
TodoStatsAlways(new_messages) ==
    [i \in 1..Len(new_messages) |-> NewMessage(new_messages[i])]
        \o << <<"stats_update", <<>>>>, <<"live_messages_update", <<>>>> >>

\* what a pass has left to broadcast: the new messages (as built), then the
\* stats, then the live list; the last two are read when their turn comes
Todo(new_messages) ==
    IF new_messages = <<>>
    THEN << <<"live_messages_update", <<>>>> >>
    ELSE [i \in 1..Len(new_messages) |-> NewMessage(new_messages[i])]
         \o << <<"stats_update", <<>>>>, <<"live_messages_update", <<>>>> >>

\* the argument of the broadcast call for a todo entry, given stats and live list
Materialize(entry, s, lm) ==
    IF MsgType(entry) = "stats_update" THEN StatsUpdate(s)
    ELSE IF MsgType(entry) = "live_messages_update" THEN LiveUpdate(Sweep(lm))
    ELSE entry

\* await asyncio.sleep(POLLING_INTERVAL) at the end of a pass
Asleep == [pc |-> "sleep", wakeAt |-> now + POLLING_INTERVAL,
           todo |-> <<>>, b |-> NoBroadcast]

\* a loop whose except clause is outside the while: the task ends at the error
OnErrorEndsTask == [pc |-> "done", wakeAt |-> 0, todo |-> <<>>, b |-> NoBroadcast]

\* the except clause of processing_task: log, then sleep as after a pass
OnError == Asleep

\* The list object a caller of get_live_messages holds: its contents when it
\* was returned, its contents now, and whether self.live_messages still is
\* this object.  get_live_messages returns self.live_messages itself.
Unbound == [valid |-> FALSE, snapshot |-> <<>>, list |-> <<>>, same |-> FALSE]
Returned(lm) == [valid |-> TRUE, snapshot |-> lm, list |-> lm, same |-> TRUE]
\* self.live_messages.extend(messages) changes the object in place
Extended(held, messages) ==
    IF held.same THEN [held EXCEPT !.list = @ \o messages] ELSE held
\* self.live_messages = [...] binds the attribute to a new list
Rebound(held) == [held EXCEPT !.same = FALSE]

\* processing_task runs on from a point where `todo` is left to broadcast, the
\* connection list is conns, and stats and live list are s and lm, to its next
\* suspension.  With no connection every broadcast returns at once, so the task
\* runs through to asyncio.sleep; otherwise it suspends in the first send_text
\* of the next broadcast.  get_live_messages() replaces live_messages by the
\* swept list when the live update's turn comes.
PollContinue(todo, conns, s, lm) ==
    IF todo = <<>>
    THEN [poll |-> Asleep, live |-> lm, pubs |-> <<>>, sent |-> FALSE, swept |-> FALSE]
    ELSE IF conns = <<>>
    THEN [poll |-> Asleep, live |-> Sweep(lm), sent |-> FALSE, swept |-> TRUE,
          pubs |-> [i \in 1..Len(todo) |->
                       [msg |-> Materialize(todo[i], s, lm), to |-> {}, at |-> now]]]
    ELSE LET msg == Materialize(Head(todo), s, lm)
         IN  [poll |-> [pc |-> "send", wakeAt |-> 0, todo |-> Tail(todo),
                        b |-> BroadcastStart(msg, conns)],
              live |-> IF MsgType(msg) = "live_messages_update" THEN Sweep(lm) ELSE lm,
              pubs |-> << [msg |-> msg, to |-> Written(conns[1]), at |-> now] >>,
              sent |-> TRUE,
              swept |-> MsgType(msg) = "live_messages_update"]

\* the effect of a PollContinue result on poll, live_messages, inbox, published
\* and on current_messages, which was `held` before
ApplyContinue(r, conns, pubsBefore, held) ==
    /\ poll' = r.poll
    /\ current_messages' = IF r.swept THEN Returned(r.live) ELSE held
    /\ live_messages' = r.live
    /\ published' = pubsBefore \o r.pubs
    /\ inbox' = IF r.sent THEN Deliver(inbox, conns[1], r.poll.b.msg) ELSE inbox

AdmitLog(new_messages) ==
    admitted \cup {[ev |-> new_messages[i], at |-> now] : i \in 1..Len(new_messages)}

\* processing_task is resumed from asyncio.sleep and runs one pass up to its
\* next suspension
PollWake ==
    /\ poll.pc = "sleep"
    /\ now >= poll.wakeAt
    /\ LET r == process_webhook_data
           new_messages == r.new
       IN  /\ live_requests' = Drain(r)
           /\ processed_request_ids' = r.processed
           /\ pass' = pass + 1
           /\ pass_conns' = active_connections
           /\ batch' = new_messages
           /\ drained' = SubSeq(live_requests, 1, Len(live_requests) - r.left)
           /\ error_pass' =
                  IF ~r.ok \/ (new_messages # <<>> /\ LatencyRaises(new_messages))
                  THEN pass + 1 ELSE error_pass
           /\ IF new_messages # <<>>
              THEN LET a == add_live_messages(new_messages)
                   IN  /\ stats' = a.stats
                       /\ admitted' = AdmitLog(new_messages)
                       /\ IF a.raised
                          THEN /\ poll' = OnError
                               /\ live_messages' = a.live
                               /\ published' = <<>>
                               /\ current_messages' =
                                      Rebound(Extended(current_messages, new_messages))
                               /\ UNCHANGED <<active_connections, inbox>>
                          ELSE /\ ApplyContinue(
                                    PollContinue(Todo(new_messages), active_connections,
                                                 a.stats, a.live),
                                    active_connections, <<>>,
                                    Rebound(Extended(current_messages, new_messages)))
                               /\ UNCHANGED active_connections
              ELSE /\ ApplyContinue(
                        PollContinue(Todo(<<>>), active_connections, stats,
                                     live_messages),
                        active_connections, <<>>, current_messages)
                   /\ UNCHANGED <<stats, admitted, active_connections>>
    /\ UNCHANGED <<now, um, ws, dead, stalled, posts, last_response, last_read,
                   last_stats, lifespan>>

\* processing_task is resumed from a send_text of its broadcast
PollSent ==
    /\ poll.pc = "send"
    /\ ~SendPending(poll.b)
    /\ IF BroadcastHasNext(poll.b, active_connections)
       THEN LET b == BroadcastSend(poll.b, active_connections, poll.b.i + 1)
            IN  /\ poll' = [poll EXCEPT !.b = b]
                /\ inbox' = Deliver(inbox, active_connections[b.i], b.msg)
                /\ published' = [published EXCEPT ![Len(published)].to =
                                     @ \cup Written(active_connections[b.i])]
                /\ UNCHANGED <<active_connections, live_messages, current_messages>>
       ELSE LET conns == DisconnectAll(active_connections, poll.b.disconnected)
            IN  /\ active_connections' = conns
                /\ ApplyContinue(PollContinue(poll.todo, conns, stats, live_messages),
                                 conns, published, current_messages)
    /\ UNCHANGED <<now, live_requests, processed_request_ids, stats, um, ws, dead, stalled,
                   posts, last_response, passVars, admitted, last_read,
                   last_stats, lifespan>>

\* ------------------------------------------------ webhook handlers
Keys == {"id", "timestamp", "user_message", "ai_response", "response", "message",
         "latency_ms", "status", "polly_response"}

\* a JSON object with none of the keys the handlers read
Empty == [k \in Keys |-> Absent]

\* bodies posted to /webhook/conversation
ConversationInputs ==
    { [Empty EXCEPT !.user_message = Str("hi"), !.ai_response = Str("hello")],
      [Empty EXCEPT !.user_message = Str("hi"), !.ai_response = Str("hello"),
                    !.id = Str("a"), !.latency_ms = Num(100)],
      [Empty EXCEPT !.user_message = Str("hi"), !.ai_response = Str("hello"),
                    !.id = Str("b"), !.latency_ms = Null],
      [Empty EXCEPT !.user_message = Str("hi"), !.ai_response = Str("hello"),
                    !.id = List],
      [Empty EXCEPT !.user_message = Num(7), !.ai_response = Str("hello"),
                    !.id = Str("c")],
      [Empty EXCEPT !.user_message = Str("hi")] }

\* bodies posted to /webhook/conversation that differ in id and latency_ms
LatencyInputs ==
    { [Empty EXCEPT !.user_message = Str("hi"), !.ai_response = Str("hello"),
                    !.id = Str("x"), !.latency_ms = Num(100)],
      [Empty EXCEPT !.user_message = Str("hi"), !.ai_response = Str("hello"),
                    !.id = Str("y"), !.latency_ms = Num(0)],
      [Empty EXCEPT !.user_message = Str("hi"), !.ai_response = Str("hello"),
                    !.id = Str("z"), !.latency_ms = Num(300)],
      [Empty EXCEPT !.user_message = Str("hi"), !.ai_response = Str("hello"),
                    !.id = Str("w")] }

\* bodies posted to /webhook/conversation in the runs with the REST reads
ReadInputs ==
    { [Empty EXCEPT !.user_message = Str("hi"), !.ai_response = Str("hello")],
      [Empty EXCEPT !.user_message = Str("hi"), !.ai_response = Str("hello"),
                    !.id = Str("a"), !.latency_ms = Num(100)] }

\* bodies posted to /webhook/ai-response
AiResponseInputs ==
    { [Empty EXCEPT !.user_message = Str("hi"), !.response = Str("hello"),
                    !.id = Str("a"), !.latency_ms = Num(300)],
      [Empty EXCEPT !.user_message = Str("hi"), !.response = Str("hello")],
      [Empty EXCEPT !.user_message = Null, !.response = Str("hello"),
                    !.id = Str("d")] }

\* bodies posted to /webhook/user-message
UserMessageInputs ==
    { [Empty EXCEPT !.message = Str("hi"), !.id = Str("a")],
      [Empty EXCEPT !.message = Str("hi")] }

\* bodies posted to /webhook/conversation whose ai_response is structured
ReplyInputs ==
    LET body(id, reply) == [Empty EXCEPT !.user_message = Str("hi"), !.id = Str(id),
                                         !.ai_response = reply]
        content(x) == Map([NoKeys EXCEPT !.content = Str(x)])
    IN  { body("r1", Map([NoKeys EXCEPT !.choices =
                             Array(<< Map([NoKeys EXCEPT !.message = content("X"),
                                                         !.text = Str("T")]) >>),
                                        !.content = Str("Y")])),
          body("r2", Map([NoKeys EXCEPT !.choices =
                             Array(<< Map([NoKeys EXCEPT !.text = Str("T")]) >>),
                                        !.content = Str("Y")])),
          body("r3", Map([NoKeys EXCEPT !.choices = Array(<<>>),
                                        !.content = Str("Y"),
                                        !.message = Str("M")])),
          body("r4", Map([NoKeys EXCEPT !.message = Str("M")])),
          body("r5", Str("Z")),
          body("r6", Num(7)) }

\* The bodies the sender scripts post to /webhook/conversation at time t:
\* send_complete_conversation (with an id made of the time) and
\* send_conversation (without id, with status).  Both name the reply
\* polly_response.
SenderInputs(t) ==
    { [Empty EXCEPT !.id = GenId("conv", t), !.user_message = Str("hi"),
                    !.polly_response = Str("hello"), !.timestamp = IsoFormat(t),
                    !.latency_ms = Num(1200)],
      [Empty EXCEPT !.user_message = Str("hi"), !.polly_response = Str("hello"),
                    !.timestamp = IsoFormat(t), !.latency_ms = Num(800),
                    !.status = Str("success")] }

\* add_live_request: the append, then the log line, which slices user_message
\* and so raises TypeError after the append when it cannot be sliced
LogRaises(request_data) ==
    ~Sliceable(Get(request_data, "user_message", Str("No message")))

\* the validation with only the first of the required fields
MissingFieldFirstOnly(request_data) == request_data.user_message = Absent

\* `field not in request_data` for one of the required fields
MissingField(request_data) ==
    request_data.user_message = Absent \/ request_data.ai_response = Absent

\* POST /webhook/conversation
conversation_call(request_data) ==
    /\ posts' = posts + 1
    /\ IF MissingField(request_data)
       THEN \* HTTPException(400), caught by `except Exception`, raised again as 500
            /\ last_response' = <<"conversation", 500>>
            /\ UNCHANGED live_requests
       ELSE LET stamped == [request_data EXCEPT
                               !.timestamp = IF @ = Absent THEN IsoFormat(now) ELSE @]
            IN  /\ live_requests' = Append(live_requests, stamped)
                /\ last_response' =
                       IF LogRaises(stamped) THEN <<"conversation", 500>>
                       ELSE <<"conversation", 200>>
    /\ UNCHANGED <<now, live_messages, processed_request_ids, stats, active_connections,
                   poll, um, ws, dead, stalled, inbox, passVars, published, admitted,
                   last_read, last_stats, lifespan, current_messages>>

\* the calls of /webhook/conversation in the runs where they come early
webhook_conversation(request_data) ==
    /\ posts < MaxPosts
    /\ now <= MaxPostTime
    /\ conversation_call(request_data)

\* POST /webhook/ai-response
webhook_ai_response(response_data) ==
    /\ posts < MaxPosts
    /\ now <= MaxPostTime
    /\ posts' = posts + 1
    /\ LET conversation_data ==
               [Empty EXCEPT
                   !.id = Get(response_data, "id", GenId("response", now)),
                   !.timestamp = Get(response_data, "timestamp", IsoFormat(now)),
                   !.user_message = Get(response_data, "user_message", Str("")),
                   !.ai_response = Get(response_data, "response", Str("")),
                   !.latency_ms = Get(response_data, "latency_ms", Num(0)),
                   !.status = Str("completed")]
       IN  /\ live_requests' = Append(live_requests, conversation_data)
           /\ last_response' =
                  IF LogRaises(conversation_data) THEN <<"ai-response", 500>>
                  ELSE <<"ai-response", 200>>
    /\ UNCHANGED <<now, live_messages, processed_request_ids, stats, active_connections,
                   poll, um, ws, dead, stalled, inbox, passVars, published, admitted,
                   last_read, last_stats, lifespan, current_messages>>

\* the message webhook_user_message broadcasts
UserMessage(message_data) ==
    << "user_message",
       [id |-> Get(message_data, "id", GenId("pending", now)),
        timestamp |-> Get(message_data, "timestamp", IsoFormat(now)),
        user_message |-> Get(message_data, "message", Str("")),
        ai_response |-> Str(""),
        status |-> Str("pending")] >>

UmIdle(n) == [pc |-> "idle", n |-> n, b |-> NoBroadcast]

\* the handler if it entered the id of the pending conversation in the dedup set
webhook_user_messageMarksId(message_data) ==
    /\ um.pc = "idle"
    /\ um.n < MaxUserMsgs
    /\ IF active_connections = <<>>
       THEN /\ um' = UmIdle(um.n + 1)
            /\ last_response' = <<"user-message", 200>>
            /\ UNCHANGED inbox
       ELSE LET b == BroadcastStart(UserMessage(message_data), active_connections)
            IN  /\ um' = [pc |-> "send", n |-> um.n + 1, b |-> b]
                /\ inbox' = Deliver(inbox, active_connections[1], b.msg)
                /\ UNCHANGED last_response
    /\ processed_request_ids' =
           processed_request_ids \cup {MsgData(UserMessage(message_data)).id}
    /\ UNCHANGED <<now, live_requests, live_messages, stats, active_connections,
                   poll, ws, dead, stalled, posts, passVars, published, admitted,
                   last_read, last_stats, lifespan, current_messages>>

\* POST /webhook/user-message, up to the first suspension of its broadcast
webhook_user_message(message_data) ==
    /\ um.pc = "idle"
    /\ um.n < MaxUserMsgs
    /\ IF active_connections = <<>>
       THEN /\ um' = UmIdle(um.n + 1)
            /\ last_response' = <<"user-message", 200>>
            /\ UNCHANGED inbox
       ELSE LET b == BroadcastStart(UserMessage(message_data), active_connections)
            IN  /\ um' = [pc |-> "send", n |-> um.n + 1, b |-> b]
                /\ inbox' = Deliver(inbox, active_connections[1], b.msg)
                /\ UNCHANGED last_response
    /\ UNCHANGED <<now, live_requests, live_messages, processed_request_ids, stats,
                   active_connections, poll, ws, dead, stalled, posts, passVars, published,
                   admitted, last_read, last_stats, lifespan, current_messages>>

\* webhook_user_message is resumed from a send_text of its broadcast
UserMessageSent ==
    /\ um.pc = "send"
    /\ ~SendPending(um.b)
    /\ IF BroadcastHasNext(um.b, active_connections)
       THEN LET b == BroadcastSend(um.b, active_connections, um.b.i + 1)
            IN  /\ um' = [um EXCEPT !.b = b]
                /\ inbox' = Deliver(inbox, active_connections[b.i], b.msg)
                /\ UNCHANGED <<active_connections, last_response>>
       ELSE /\ active_connections' = DisconnectAll(active_connections, um.b.disconnected)
            /\ um' = UmIdle(um.n)
            /\ last_response' = <<"user-message", 200>>
            /\ UNCHANGED inbox
    /\ UNCHANGED <<now, live_requests, live_messages, processed_request_ids, stats,
                   poll, ws, dead, stalled, posts, passVars, published, admitted,
                   last_read, last_stats, lifespan, current_messages>>

\* GET /messages/live
get_live_messages_read ==
    /\ live_messages' = Sweep(live_messages)
    /\ last_read' = [valid |-> TRUE, at |-> now, messages |-> Sweep(live_messages),
                     known |-> admitted]
    /\ current_messages' = Rebound(current_messages)
    /\ UNCHANGED <<now, live_requests, processed_request_ids, stats, active_connections,
                   poll, um, ws, dead, stalled, inbox, posts, last_response, passVars,
                   published, admitted, last_stats, lifespan>>

\* the dict d after d["timestamp"] = ts and d["active_websockets"] = n
WithReadFields(d, ts, n) ==
    [total_conversations |-> d.total_conversations,
     messages_per_minute |-> d.messages_per_minute,
     average_response_time |-> d.average_response_time,
     last_activity |-> d.last_activity,
     timestamp |-> ts,
     active_websockets |-> n]

\* GET /stats: the handler writes two items into the dict get_stats() returned,
\* which changes the stored stats when that dict is the stored one
get_stats_read ==
    LET r == get_stats(stats)
        response == WithReadFields(r.dict, IsoFormat(now), Len(active_connections))
    IN  /\ stats' = IF r.stored THEN response ELSE stats
        /\ last_stats' = [valid |-> TRUE, at |-> now,
                          live |-> Len(Sweep(live_messages)), response |-> response]
        /\ UNCHANGED <<now, live_requests, live_messages, processed_request_ids,
                       active_connections, poll, um, ws, dead, stalled, inbox, posts,
                       last_response, passVars, published, admitted, last_read,
                       lifespan, current_messages>>

\* --------------------------------------------- websocket_endpoint
Heartbeat == <<"heartbeat", IsoFormat(now)>>

\* A client opens /ws and accept() returns: connect() appends the socket, the
\* handler reads the live list and suspends in the send of the initial
\* live_messages_update.  Nothing is visible of the socket while the handler is
\* suspended in accept(), and an accept() that raises (outside the try) leaves
\* everything as it was, so the action starts where accept() has returned.
WsConnect(s) ==
    /\ ws[s].pc = "new"
    /\ \A t \in Sockets : t < s => ws[t].pc # "new"
    /\ active_connections' = Append(active_connections, s)
    /\ live_messages' = Sweep(live_messages)
    /\ inbox' = Deliver(inbox, s, LiveUpdate(Sweep(live_messages)))
    /\ ws' = [ws EXCEPT ![s].pc = "snapshot"]
    /\ current_messages' = Rebound(current_messages)
    /\ UNCHANGED <<now, live_requests, processed_request_ids, stats, poll, um, dead,
                   stalled, posts, last_response, passVars, published, admitted,
                   last_read, last_stats, lifespan>>

\* the handler calls send_text(msg) and suspends at `next`; when the send raises,
\* the except clause disconnects the socket and the handler ends
EndpointSend(s, msg, next) ==
    IF SendRaises(s)
    THEN /\ active_connections' = disconnect(active_connections, s)
         /\ ws' = [ws EXCEPT ![s].pc = "closed"]
         /\ UNCHANGED inbox
    ELSE /\ inbox' = Deliver(inbox, s, msg)
         /\ ws' = [ws EXCEPT ![s].pc = next]
         /\ UNCHANGED active_connections

\* the initial live_messages_update is sent: send the initial stats_update
WsSnapshotSent(s) ==
    /\ ws[s].pc = "snapshot"
    /\ s \notin stalled
    /\ EndpointSend(s, StatsUpdate(stats), "stats")
    /\ UNCHANGED <<now, live_requests, live_messages, processed_request_ids, stats,
                   poll, um, dead, stalled, posts, last_response, passVars, published,
                   admitted,
                   last_read, last_stats, lifespan, current_messages>>

\* The handler calls send_text(Heartbeat) and then asyncio.sleep: nothing of the
\* handler runs between the two suspensions, so they are one.
HeartbeatSend(s) ==
    IF SendRaises(s)
    THEN /\ active_connections' = disconnect(active_connections, s)
         /\ ws' = [ws EXCEPT ![s].pc = "closed"]
         /\ UNCHANGED inbox
    ELSE /\ inbox' = Deliver(inbox, s, Heartbeat)
         /\ ws' = [ws EXCEPT ![s] = [pc |-> "sleep",
                                    wakeAt |-> now + WEBSOCKET_HEARTBEAT]]
         /\ UNCHANGED active_connections

\* the initial stats_update is sent: enter the loop, send the first heartbeat
WsStatsSent(s) ==
    /\ ws[s].pc = "stats"
    /\ s \notin stalled
    /\ HeartbeatSend(s)
    /\ UNCHANGED <<now, live_requests, live_messages, processed_request_ids, stats,
                   poll, um, dead, stalled, posts, last_response, passVars, published,
                   admitted,
                   last_read, last_stats, lifespan, current_messages>>

\* heartbeats sent only while the poll loop is asleep
WsWakeWhenPollAsleep(s) ==
    /\ ws[s].pc = "sleep"
    /\ now >= ws[s].wakeAt
    /\ s \notin stalled
    /\ poll.pc = "sleep"
    /\ HeartbeatSend(s)
    /\ UNCHANGED <<now, live_requests, live_messages, processed_request_ids, stats,
                   poll, um, dead, stalled, posts, last_response, passVars, published,
                   admitted,
                   last_read, last_stats, lifespan, current_messages>>

\* The sleep is over: send the next heartbeat.  For a client that has stopped
\* reading, the send stays pending: the handler stays where it is until the
\* client goes away and the send raises.
WsWake(s) ==
    /\ ws[s].pc = "sleep"
    /\ now >= ws[s].wakeAt
    /\ s \notin stalled
    /\ HeartbeatSend(s)
    /\ UNCHANGED <<now, live_requests, live_messages, processed_request_ids, stats,
                   poll, um, dead, stalled, posts, last_response, passVars, published,
                   admitted,
                   last_read, last_stats, lifespan, current_messages>>

\* the client of s goes away (closes, loses its network)
PeerGone(s) ==
    /\ ws[s].pc \notin {"new", "closed"}
    /\ s \notin dead
    /\ dead' = dead \cup {s}
    /\ stalled' = stalled \ {s}
    /\ UNCHANGED <<now, live_requests, live_messages, processed_request_ids, stats,
                   active_connections, poll, um, ws, inbox, posts, last_response,
                   passVars, published, admitted, last_read, last_stats,
                   lifespan, current_messages>>

\* the client of s stays connected but stops reading from its socket
PeerStalls(s) ==
    /\ ws[s].pc \notin {"new", "closed"}
    /\ s \notin dead
    /\ s \notin stalled
    /\ stalled' = stalled \cup {s}
    /\ UNCHANGED <<now, live_requests, live_messages, processed_request_ids, stats,
                   active_connections, poll, um, ws, dead, inbox, posts, last_response,
                   passVars, published, admitted, last_read, last_stats,
                   lifespan, current_messages>>

\* --------------------------------------------------------- lifespan
\* a shutdown that does not cancel the task
NotCancelled == poll

\* processing_task after task.cancel(): CancelledError is raised at the await
\* where the task is suspended.  It is no Exception, so neither the except
\* clause of broadcast nor that of processing_task catches it: the task ends
\* there, the cleanup of a broadcast in progress included.
Cancelled == [pc |-> "cancelled", wakeAt |-> 0, todo |-> <<>>, b |-> NoBroadcast]

\* the server has closed every connection before it sends lifespan.shutdown
ConnectionsClosed ==
    \A s \in Sockets : ws[s].pc \in {"new", "closed"} \/ s \in dead

\* The shutdown part of lifespan: cancel processing_task and await it.  The
\* server runs it once, after it has stopped accepting connections and has
\* closed the open ones.
Shutdown ==
    /\ lifespan = "running"
    /\ ConnectionsClosed
    /\ lifespan' = "stopped"
    /\ poll' = Cancelled
    /\ UNCHANGED <<now, live_requests, live_messages, processed_request_ids, stats,
                   active_connections, um, ws, dead, stalled, inbox, posts,
                   last_response, passVars, published, admitted, last_read,
                   last_stats, current_messages>>

\* ------------------------------------------------------------ clock
\* A timer that is due fires before the clock moves on.
TimerDue ==
    \/ poll.pc = "sleep" /\ now >= poll.wakeAt
    \/ \E s \in Sockets : ws[s].pc = "sleep" /\ now >= ws[s].wakeAt /\ s \notin stalled

Tick(bound) ==
    /\ now < bound
    /\ ~TimerDue
    /\ now' = now + 1
    /\ UNCHANGED <<live_requests, live_messages, processed_request_ids, stats,
                   active_connections, poll, um, ws, dead, stalled, inbox, posts,
                   last_response,
                   passVars, published, admitted, last_read, last_stats,
                   lifespan, current_messages>>

\* ------------------------------------------------- specifications
\* the state after lifespan startup: both managers constructed, the task created
Init ==
    /\ now = 0
    /\ live_requests = <<>>
    /\ live_messages = <<>>
    /\ processed_request_ids = {}
    /\ stats = [total_conversations |-> 0, messages_per_minute |-> 0,
                average_response_time |-> 0, last_activity |-> None]
    /\ active_connections = <<>>
    /\ poll = [pc |-> "sleep", wakeAt |-> 0, todo |-> <<>>, b |-> NoBroadcast]
    /\ um = UmIdle(0)
    /\ ws = [s \in Sockets |-> [pc |-> "new", wakeAt |-> 0]]
    /\ dead = {}
    /\ stalled = {}
    /\ inbox = [s \in Sockets |-> <<>>]
    /\ posts = 0
    /\ last_response = <<"none", 0>>
    /\ pass = 0
    /\ batch = <<>>
    /\ drained = <<>>
    /\ error_pass = 0
    /\ published = <<>>
    /\ pass_conns = <<>>
    /\ admitted = {}
    /\ last_read = [valid |-> FALSE, at |-> 0, messages |-> <<>>, known |-> {}]
    /\ last_stats = [valid |-> FALSE, at |-> 0, live |-> 0, response |-> <<>>]
    /\ current_messages = Unbound
    /\ lifespan = "running"

Webhook ==
    /\ posts < MaxStorePosts
    /\ \/ \E d \in ConversationInputs : webhook_conversation(d)
       \/ \E d \in AiResponseInputs : webhook_ai_response(d)

\* The pipeline without WebSocket clients, over the whole lifetime of an event.
NextStore ==
    \/ Webhook
    \/ PollWake
    \/ get_live_messages_read
    \/ Tick(MaxTime)

SpecStore == Init /\ [][NextStore]_vars

\* The poll loop and the webhooks over a few ticks.  The event loop runs every
\* task that is ready, and time passes.
NextLoop ==
    \/ Webhook
    \/ PollWake
    \/ Tick(MaxLoopTime)

SpecLoop ==
    Init /\ [][NextLoop]_vars /\ WF_vars(PollWake) /\ WF_vars(Tick(MaxLoopTime))

\* bodies posted to /webhook/conversation in the runs with WebSocket clients
HubInputs ==
    {d \in ConversationInputs : d.ai_response # Absent /\ IsStr(d.user_message)}

\* The poll loop with WebSocket clients that come and go, over a time shorter
\* than the first heartbeat interval.
Next ==
    \/ posts < MaxHubPosts /\ \E d \in HubInputs : webhook_conversation(d)
    \/ PollWake
    \/ PollSent
    \/ \E s \in Sockets : WsConnect(s)
    \/ \E s \in Sockets : WsSnapshotSent(s)
    \/ \E s \in Sockets : WsStatsSent(s)
    \/ \E s \in Sockets : PeerGone(s)
    \/ Tick(MaxHubTime)

Spec == Init /\ [][Next]_vars

\* User messages broadcast by their webhook while the poll loop broadcasts,
\* clients connect and go away, and an AI response arrives.  The clients'
\* handlers stay in their first send.
NextUser ==
    \/ \E d \in UserMessageInputs : webhook_user_message(d)
    \/ UserMessageSent
    \/ posts < MaxUserPosts /\ \E d \in AiResponseInputs : webhook_ai_response(d)
    \/ PollWake
    \/ PollSent
    \/ \E s \in Sockets : WsConnect(s)
    \/ \E s \in Sockets : PeerGone(s)
    \/ Tick(MaxHubTime)

\* One conversation from its webhook call to its expiry, with the REST reads
\* of the live list and of the statistics at any time.
NextRead ==
    \/ posts < MaxReadPosts /\ \E d \in ReadInputs : webhook_conversation(d)
    \/ PollWake
    \/ get_live_messages_read
    \/ get_stats_read
    \/ Tick(MaxTime)

SpecRead == Init /\ [][NextRead]_vars

\* Batches of up to MaxPosts conversations with various latencies.
NextStats ==
    \/ \E d \in LatencyInputs : webhook_conversation(d)
    \/ PollWake
    \/ Tick(MaxStatsTime)

SpecStats == Init /\ [][NextStats]_vars

SpecUser == Init /\ [][NextUser]_vars

\* The poll loop broadcasting to clients of which some stop reading.  The event
\* loop runs every task that is ready: the poll loop when its sleep is over or
\* the send it waits for has completed.
NextSend ==
    \/ PollWake
    \/ PollSent
    \/ \E s \in Sockets : WsConnect(s)
    \/ \E s \in Sockets : PeerStalls(s)
    \/ \E s \in Sockets : PeerGone(s)
    \/ Tick(MaxLoopTime)

SpecSend ==
    /\ Init /\ [][NextSend]_vars
    /\ WF_vars(PollWake) /\ WF_vars(PollSent) /\ WF_vars(Tick(MaxLoopTime))

\* the body posted to /webhook/conversation in the runs with a shutdown
StopInputs == {d \in ReadInputs : d.id # Absent}

\* the clients in the runs with a shutdown
StopSockets == 1..MaxStopSockets

\* The service from startup to shutdown: conversations arrive and clients
\* connect while the server accepts connections; the handlers of the clients
\* and the poll loop run whenever they can.
NextStop ==
    \/ /\ lifespan = "running"
       /\ posts < MaxStopPosts
       /\ \E d \in StopInputs : webhook_conversation(d)
    \/ PollWake
    \/ PollSent
    \/ lifespan = "running" /\ \E s \in StopSockets : WsConnect(s)
    \/ \E s \in StopSockets : WsSnapshotSent(s)
    \/ \E s \in StopSockets : WsStatsSent(s)
    \/ \E s \in StopSockets : WsWake(s)
    \/ \E s \in StopSockets : PeerGone(s)
    \/ Shutdown
    \/ Tick(MaxStopTime)

SpecStop == Init /\ [][NextStop]_vars

\* Conversations whose reply is a string, a number or an object in one of the
\* formats of extract_ai_response.
NextReply ==
    \/ posts < MaxReplyPosts /\ \E d \in ReplyInputs : webhook_conversation(d)
    \/ PollWake
    \/ Tick(MaxReplyTime)

SpecReply == Init /\ [][NextReply]_vars

\* The sender scripts posting conversations, next to a sender whose bodies
\* name the reply ai_response.
NextSender ==
    \/ posts < MaxSenderPosts /\ \E d \in SenderInputs(now) : webhook_conversation(d)
    \/ posts < MaxSenderPosts /\ \E d \in ReadInputs : webhook_conversation(d)
    \/ PollWake
    \/ Tick(MaxSenderTime)

SpecSender == Init /\ [][NextSender]_vars

\* the body posted to /webhook/conversation in the runs with a late second call
RetryInputs == {d \in ReadInputs : d.id # Absent}

\* The same conversation posted again, at any time up to after its expiry.
NextRetry ==
    \/ posts < MaxRetryPosts /\ \E d \in RetryInputs : conversation_call(d)
    \/ PollWake
    \/ Tick(MaxTime)

SpecRetry == Init /\ [][NextRetry]_vars

\* Clients through their whole handler, heartbeats included, while the poll
\* loop broadcasts and may get stuck in a send to a client that has stopped
\* reading.  The event loop runs every task that is ready.
NextBeat ==
    \/ PollWake
    \/ PollSent
    \/ \E s \in Sockets : WsConnect(s)
    \/ \E s \in Sockets : WsSnapshotSent(s)
    \/ \E s \in Sockets : WsStatsSent(s)
    \/ \E s \in Sockets : WsWake(s)
    \/ \E s \in Sockets : PeerStalls(s)
    \/ \E s \in Sockets : PeerGone(s)
    \/ Tick(MaxBeatTime)

SpecBeat ==
    /\ Init /\ [][NextBeat]_vars
    /\ WF_vars(PollWake) /\ WF_vars(PollSent) /\ WF_vars(Tick(MaxBeatTime))
    /\ \A s \in Sockets :
          WF_vars(WsSnapshotSent(s)) /\ WF_vars(WsStatsSent(s)) /\ WF_vars(WsWake(s))

\* ------------------------------------------------------- claims
Range(seq) == {seq[i] : i \in 1..Len(seq)}
Ids(events) == {events[i].id : i \in 1..Len(events)}
LiveUpdates(pubs) ==
    {i \in 1..Len(pubs) : MsgType(pubs[i].msg) = "live_messages_update"}

\* C1: a request whose id was admitted before, in an earlier pass or earlier in
\* the same drained batch, is not accepted: the batch a pass returns holds no
\* id that was processed or admitted before the pass and no id twice, the live
\* list becomes the swept old list plus that batch, and total_conversations
\* grows by the size of that batch.
C1_IdempotentAdmission ==
    [][pass' # pass =>
        /\ \A i \in 1..Len(batch') :
              /\ batch'[i].id \notin processed_request_ids
              /\ \A a \in admitted : a.ev.id # batch'[i].id
              /\ \A j \in 1..Len(batch') : j # i => batch'[j].id # batch'[i].id
        /\ live_messages' = Sweep(live_messages \o batch')
        /\ stats'.total_conversations = stats.total_conversations + Len(batch')
      ]_vars

\* a pass has drained two requests with the same id and accepted one of them
C1_Witness ==
    /\ Len(drained) = 2
    /\ RequestId(drained[1]) = RequestId(drained[2])
    /\ Len(batch) = 1
    /\ stats.total_conversations = 1

C3_BroadcastIsolation ==
    [][ /\ ( /\ poll.pc = "send"
             /\ poll' # poll
             /\ ~BroadcastHasNext(poll.b, active_connections) )
           => LET failed == Range(poll.b.disconnected)
                  stayed == Range(poll.b.start) \cap Range(active_connections)
              IN  /\ stayed \subseteq Range(poll.b.attempted)
                  /\ stayed \ failed \subseteq published[Len(published)].to
                  /\ active_connections' =
                         SelectSeq(active_connections, LAMBDA c : c \notin failed)
        /\ (poll'.pc = "send" /\ poll'.b # poll.b)
           => poll'.b.attempted[Len(poll'.b.attempted)] \in Range(active_connections')
      ]_vars

\* What holds of a broadcast whose connection list no other task changed while
\* it was suspended: every socket registered at its start is sent to, the
\* message is written to those whose send did not raise and to no other of
\* them, and the cleanup removes exactly the failed ones, keeping the order.
BroadcastUndisturbed ==
    [][ ( /\ poll.pc = "send"
          /\ poll' # poll
          /\ ~BroadcastHasNext(poll.b, active_connections)
          /\ active_connections = poll.b.start )
        => LET failed == Range(poll.b.disconnected)
           IN  /\ Range(poll.b.start) \subseteq Range(poll.b.attempted)
               /\ Range(poll.b.start) \ failed \subseteq published[Len(published)].to
               /\ published[Len(published)].to \cap failed = {}
               /\ active_connections' =
                      SelectSeq(poll.b.start, LAMBDA c : c \notin failed)
      ]_vars

\* C4: the first message a socket gets is the initial live_messages_update and
\* the second is the initial stats_update.
C4_CatchUpFirst ==
    \A s \in Sockets :
        /\ Len(inbox[s]) >= 1 => MsgType(inbox[s][1]) = "live_messages_update"
        /\ Len(inbox[s]) >= 2 => MsgType(inbox[s][2]) = "stats_update"

\* C5: live_requests changes only by an append or by the reset of a pass, and
\* the reset clears exactly the requests the loop of that pass has completed.
C5_NoRequestLost ==
    [][ live_requests' # live_requests =>
          \/ /\ Len(live_requests') = Len(live_requests) + 1
             /\ SubSeq(live_requests', 1, Len(live_requests)) = live_requests
          \/ /\ pass' # pass
             /\ live_requests' = <<>>
             /\ drained' = live_requests
      ]_vars

\* a request was appended while the poll loop is suspended in a send
C5_Witness ==
    /\ poll.pc = "send"
    /\ live_requests # <<>>
    /\ drained = <<>>
    /\ error_pass = 0

C7_GeneratedIdsUnique ==
    (pass > 0 /\ error_pass # pass) =>
        Cardinality({i \in 1..Len(batch) :
                        \E t \in 0..MaxTime : batch[i].id = GenId("live", t)})
            = Cardinality({i \in 1..Len(drained) : drained[i].id = Absent})

\* C8: a pass leaves live_requests empty, and every payload it found there
\* whose id is new and can be a set member and whose latency is a number is
\* in the live list and published as a new_message when the pass is over.
C8_MalformedNeverStalls ==
    [][ pass' = pass + 1 =>
          /\ live_requests' = <<>>
          /\ \A i \in 1..Len(live_requests) :
                LET d == live_requests[i]
                IN  ( /\ Hashable(RequestId(d))
                      /\ RequestId(d) \notin processed_request_ids
                      /\ IsNum(Get(d, "latency_ms", Num(0))) )
                    => /\ RequestId(d) \in Ids(live_messages')
                       /\ \E k \in 1..Len(published') :
                             /\ MsgType(published'[k].msg) = "new_message"
                             /\ MsgData(published'[k].msg).id = RequestId(d)
      ]_vars

\* C9: when a pass with a non-empty batch is over, each socket registered from
\* its start to its end was written the events of the batch, one message each
\* in batch order, then one stats_update that counts the batch, then one
\* live_messages_update, and nothing else.
C9_PublicationOrder ==
    (pass > 0 /\ poll.pc = "sleep" /\ batch # <<>>) =>
        \A c \in Range(pass_conns) \cap Range(active_connections) :
            LET got == SelectSeq(published, LAMBDA p : c \in p.to)
                n == Len(batch)
            IN  /\ Len(got) = n + 2
                /\ \A i \in 1..n : got[i].msg = NewMessage(batch[i])
                /\ got[n + 1].msg = StatsUpdate(stats)
                /\ MsgType(got[n + 2].msg) = "live_messages_update"

\* C10: when a pass is over it has published exactly one live_messages_update,
\* and that message carries the swept live list.
C10_OneLiveUpdatePerPass ==
    (pass > 0 /\ poll.pc = "sleep") =>
        /\ Cardinality(LiveUpdates(published)) = 1
        /\ \A i \in LiveUpdates(published) :
              LET lm == MsgData(published[i].msg)
              IN  /\ i = Len(published)
                  /\ \A k \in 1..Len(lm) :
                        FromIsoFormat(lm[k].expires_at) > published[i].at

\* C11: when a broadcast returns, of the poll loop or of the user-message
\* webhook, send_text was called for every socket that was in
\* active_connections when the broadcast began and still is.
C11_EverySubscriberAttempted ==
    [][ /\ ( /\ poll.pc = "send"
             /\ poll' # poll
             /\ ~BroadcastHasNext(poll.b, active_connections) )
           => Range(poll.b.start) \cap Range(active_connections)
                  \subseteq Range(poll.b.attempted)
        /\ ( /\ um.pc = "send"
             /\ um' # um
             /\ ~BroadcastHasNext(um.b, active_connections) )
           => Range(um.b.start) \cap Range(active_connections)
                  \subseteq Range(um.b.attempted)
      ]_vars

\* C12: a broadcast of the poll loop that is suspended in a send comes to its
\* end, whatever the client does, and the poll loop goes on to its sleep and,
\* unless the clock reaches its bound first, to its next pass.
C12_SendBounded ==
    /\ (poll.pc = "send") ~> (poll.pc = "sleep")
    /\ \A p \in 1..MaxLoopTime :
          (pass = p /\ poll.pc = "send" /\ now < MaxLoopTime)
              ~> (pass = p + 1 \/ now = MaxLoopTime)

\* C13: total_conversations never decreases; it changes only when a pass
\* admits its batch, and then it grows by the number of events in the batch.
C13_StatsMonotonic ==
    [][ /\ stats'.total_conversations >= stats.total_conversations
        /\ stats'.total_conversations # stats.total_conversations
              => pass' = pass + 1
        /\ pass' = pass + 1
              => stats'.total_conversations
                     = stats.total_conversations + Len(batch')
      ]_vars

\* a second batch has been admitted
C13_Witness ==
    /\ pass >= 2
    /\ Len(batch) = 1
    /\ stats.total_conversations = 2

\* the latency_ms values of a batch, and those of them that are > 0
Latencies(events) == [i \in 1..Len(events) |-> events[i].latency_ms[2]]
Positive(events) == {i \in 1..Len(events) : events[i].latency_ms[2] > 0}
RECURSIVE SumOver(_, _)
SumOver(events, I) ==
    IF I = {} THEN 0
    ELSE LET i == CHOOSE j \in I : TRUE
         IN  events[i].latency_ms[2] + SumOver(events, I \ {i})

\* C14: after a pass whose batch has an event with latency_ms > 0,
\* average_response_time (in hundredths) is the mean of the latencies > 0 of
\* that batch, rounded to two decimals; latencies [100, 0, 300] give 200.00.
C14_AverageOfPositive ==
    (pass > 0 /\ batch # <<>> /\ error_pass # pass /\ Positive(batch) # {}) =>
        LET n == Cardinality(Positive(batch))
            sum == SumOver(batch, Positive(batch))
            avg == stats.average_response_time
        IN  /\ -n <= 2 * (n * avg - 100 * sum)
            /\ 2 * (n * avg - 100 * sum) <= n
            /\ Latencies(batch) = <<100, 0, 300>> => avg = 20000

\* the batch with latencies [100, 0, 300] has been admitted
C14_Witness ==
    /\ Len(batch) = 3
    /\ Latencies(batch) = <<100, 0, 300>>
    /\ stats.average_response_time = 20000

\* C15: after a pass whose batch is not empty and has no event with
\* latency_ms > 0, average_response_time is 0.
C15_AverageZeroWhenNone ==
    (pass > 0 /\ batch # <<>> /\ error_pass # pass /\ Positive(batch) = {}) =>
        stats.average_response_time = 0

\* the number of events that are live at time t
LiveAt(t) == Cardinality({a \in admitted : a.at <= t /\ t < a.at + TTL})

\* C16: the messages_per_minute of every GET /stats response and of every
\* stats_update a pass publishes is the number of events live at that moment.
C16_GaugeIsLiveCount ==
    /\ last_stats.valid =>
          last_stats.response.messages_per_minute = last_stats.live
    /\ \A i \in 1..Len(published) :
          MsgType(published[i].msg) = "stats_update" =>
              MsgData(published[i].msg).messages_per_minute = LiveAt(published[i].at)

IsHiHello(d) ==
    /\ d.id = Absent
    /\ d.user_message = Str("hi")
    /\ d.ai_response = Str("hello")
    /\ d.status = Absent

\* the event the pass at time t makes of that payload
IsHiHelloEvent(ev, t) ==
    /\ ev.id = GenId("live", t)
    /\ ev.user_message = Str("hi")
    /\ ev.ai_response = Str("hello")
    /\ ev.status = Str("success")

C20_GetStatsReturnsCopy ==
    /\ DOMAIN stats = StatsKeys
    /\ \A i \in 1..Len(published) :
          MsgType(published[i].msg) = "stats_update" =>
              DOMAIN MsgData(published[i].msg) = StatsKeys
    /\ last_stats.valid =>
          DOMAIN last_stats.response = StatsKeys \cup {"timestamp", "active_websockets"}

\* a pass has published a stats_update after a GET /stats
C20_Witness ==
    /\ last_stats.valid
    /\ \E i \in 1..Len(published) :
          /\ MsgType(published[i].msg) = "stats_update"
          /\ published[i].at > last_stats.at

\* ---------------------------------------------------------------- C21
\* a heartbeat send of the handler of s that fails ends that handler only and
\* removes s, and nothing else, from active_connections
HeartbeatFailureIsLocal ==
    [][\A s \in Sockets :
          (ws[s].pc \in {"stats", "sleep"} /\ ws'[s].pc = "closed")
              => /\ s \in dead
                 /\ active_connections' = disconnect(active_connections, s)
                 /\ \A t \in Sockets \ {s} : ws'[t] = ws[t]]_vars

\* a heartbeat loop asleep until w sends its next heartbeat and sleeps until
\* w + WEBSOCKET_HEARTBEAT, unless the client has gone or stopped reading
HeartbeatGoesOn ==
    \A s \in Sockets : \A w \in WEBSOCKET_HEARTBEAT..MaxBeatTime :
        (ws[s].pc = "sleep" /\ ws[s].wakeAt = w)
            ~> \/ ws[s].pc = "sleep" /\ ws[s].wakeAt = w + WEBSOCKET_HEARTBEAT
               \/ ws[s].pc = "closed"
               \/ s \in stalled

\* C21: Heartbeats are decoupled from the broadcast: every subscriber that stays
\* connected gets its next heartbeat from its own handler whatever the poll loop
\* does, also while the poll loop is suspended in a send to another subscriber,
\* and a failed heartbeat send removes only that subscriber.
C21_HeartbeatsDecoupled == HeartbeatFailureIsLocal /\ HeartbeatGoesOn

\* a heartbeat loop has sent its second heartbeat while the poll loop is
\* suspended in a send to another subscriber that has stopped reading
C21_Witness ==
    \E s \in Sockets :
        /\ ws[s].pc = "sleep"
        /\ ws[s].wakeAt >= 2 * WEBSOCKET_HEARTBEAT
        /\ poll.pc = "send"
        /\ SendPending(poll.b)
        /\ poll.b.attempted[Len(poll.b.attempted)] # s
C23_EventCarriesExtractedReply ==
    \A i \in 1..Len(batch) :
        \E j \in 1..Len(drained) :
            /\ drained[j].id = batch[i].id
            /\ batch[i].ai_response = extract_ai_response(drained[j].ai_response)
\* ---------------------------------------------------------------- C24
\* C24: Every event in the live set expires two minutes after its creation
\* time, its timestamp field: expires_at = timestamp + TTL, also for a payload
\* that waited in the queue before the pass that admitted it.
C24_ExpiresTwoMinutesAfterCreation ==
    \A i \in 1..Len(live_messages) :
        FromIsoFormat(live_messages[i].expires_at)
            = FromIsoFormat(live_messages[i].timestamp) + TTL
\* ---------------------------------------------------------------- C25
\* C25: A complete-conversation payload as the sender scripts build it
\* (user_message and polly_response, no ai_response) posted to
\* /webhook/conversation is answered with success and appended to the queue.
C25_SenderPayloadAccepted ==
    [][\A d \in SenderInputs(now) :
          webhook_conversation(d)
              => /\ last_response' = <<"conversation", 200>>
                 /\ live_requests' = Append(live_requests, d)]_vars
\* ---------------------------------------------------------------- C26
\* C26: disconnect is idempotent: for a socket that is not, or no longer, in
\* active_connections it changes nothing; twice is the same as once; and the
\* cleanup of a broadcast removes exactly those of its failed sockets that are
\* still in the list, also when a handler has removed one of them before.
C26_DisconnectIdempotent ==
    /\ \A c \in Sockets :
          /\ c \notin Range(active_connections)
                => disconnect(active_connections, c) = active_connections
          /\ disconnect(disconnect(active_connections, c), c)
                = disconnect(active_connections, c)
    /\ poll.pc = "send" =>
          LET after == DisconnectAll(active_connections, poll.b.disconnected)
          IN  /\ Range(after) = Range(active_connections) \ Range(poll.b.disconnected)
              /\ DisconnectAll(after, poll.b.disconnected) = after

\* a broadcast is suspended with a failed socket in `disconnected` that the
\* socket's handler has removed from active_connections in the meantime,
\* while another socket is still connected
C26_Witness ==
    /\ poll.pc = "send"
    /\ active_connections # <<>>
    /\ \E s \in Range(poll.b.disconnected) :
          s \notin Range(active_connections) /\ ws[s].pc = "closed"
\* ---------------------------------------------------------------- C27
\* C27: Single writer: only a pass of the poll loop changes the live list, the
\* dedup set and the stats; a webhook call, a REST read or a connecting client
\* leaves them as they are.
C27_SingleWriter ==
    [][pass' = pass =>
          UNCHANGED <<live_messages, processed_request_ids, stats>>]_vars
\* ---------------------------------------------------------------- C28
\* C28: Every event accepted by a pass is published exactly once as its own
\* message in that pass: when the pass is over, broadcast was called exactly
\* once with each event of the batch, so no event is in the live list without
\* having been published.
C28_AcceptedPublishedOnce ==
    (pass > 0 /\ poll.pc = "sleep") =>
        \A i \in 1..Len(batch) :
            Cardinality({k \in 1..Len(published) :
                            published[k].msg = NewMessage(batch[i])}) = 1
\* ---------------------------------------------------------------- C29
NoRepeat(seq) == \A i, j \in 1..Len(seq) : i # j => seq[i] # seq[j]

\* C29: One broadcast call calls send_text for any socket at most once and
\* does not send again to a socket whose send failed, while clients connect
\* and go and other broadcasts run.
C29_AtMostOnce ==
    \A b \in {poll.b, um.b} :
        /\ NoRepeat(b.attempted)
        /\ NoRepeat(b.disconnected)
        /\ Range(b.disconnected) \subseteq Range(b.attempted)

\* a broadcast went on to the second socket after its send to the first failed
C29_Witness ==
    \E b \in {poll.b, um.b} :
        /\ Len(b.attempted) = 2
        /\ b.disconnected # <<>>
        /\ b.disconnected[1] = b.attempted[1]
\* ---------------------------------------------------------------- C30
\* C30: The list get_live_messages returns is a point-in-time copy: no later
\* admission or sweep changes it, so the list the poll loop holds as
\* current_messages still has the contents it had when it was returned.
C30_SnapshotIsCopy ==
    current_messages.valid => current_messages.list = current_messages.snapshot
\* ---------------------------------------------------------------- C31
\* s is t with some elements left out, the others in the order of t
RECURSIVE IsSubSeq(_, _)
IsSubSeq(s, t) ==
    IF s = <<>> THEN TRUE
    ELSE IF t = <<>> THEN FALSE
    ELSE IF Head(s) = Head(t) THEN IsSubSeq(Tail(s), Tail(t))
    ELSE IsSubSeq(s, Tail(t))

\* C31: The live list is ordered by insertion: every step leaves the events
\* that remain in their order and puts the events of a new batch behind them,
\* the batch in the order of the queue; and what get_live_messages returns,
\* to the poll loop for its live_messages_update and to GET /messages/live,
\* is this list.
C31_OrderedByInsertion ==
    [][/\ IsSubSeq(live_messages',
                   live_messages \o (IF pass' # pass THEN batch' ELSE <<>>))
       /\ pass' # pass =>
             /\ IsSubSeq([i \in 1..Len(batch') |-> batch'[i].id],
                         [j \in 1..Len(drained') |-> RequestId(drained'[j])])
             /\ \A i \in LiveUpdates(published') :
                   MsgData(published'[i].msg) = live_messages'
       /\ last_read' # last_read => last_read'.messages = live_messages']_vars

\* the live list holds two events of which the first was admitted by an
\* earlier pass than the second
C31_Witness ==
    /\ Len(live_messages) = 2
    /\ \E a, b \in admitted :
          /\ a.ev = live_messages[1]
          /\ b.ev = live_messages[2]
          /\ a.at < b.at
\* ---------------------------------------------------------------- C32
\* C32: A pass that accepts no event, because the queue is empty or holds only
\* duplicates, leaves the four stats fields as they are and publishes one
\* live_messages_update and nothing else.
C32_EmptyPassOnlyLiveUpdate ==
    [][(pass' # pass /\ batch' = <<>>) =>
          /\ stats' = stats
          /\ Len(published') = 1
          /\ MsgType(published'[1].msg) = "live_messages_update"]_vars

\* a pass has drained a queue that held only a duplicate
C32_Witness ==
    /\ pass > 0
    /\ batch = <<>>
    /\ drained # <<>>
    /\ error_pass # pass
    /\ stats.total_conversations > 0
    /\ Len(published) = 1
\* ---------------------------------------------------------------- C33
\* C33: The dedup set never shrinks: no step removes an id from
\* processed_request_ids, so a pass admits no event with the id of an event
\* admitted before, also when that event has expired and left the live list.
C33_DedupNeverShrinks ==
    [][/\ processed_request_ids \subseteq processed_request_ids'
       /\ pass' # pass =>
             \A i \in 1..Len(batch') :
                 \A a \in admitted : a.ev.id # batch'[i].id]_vars

\* a pass has drained a request with the id of an event that was admitted
\* more than TTL ago and has left the live list, and has accepted nothing
C33_Witness ==
    /\ Len(drained) = 1
    /\ batch = <<>>
    /\ live_messages = <<>>
    /\ \E a \in admitted :
          /\ a.ev.id = RequestId(drained[1])
          /\ now >= a.at + TTL
          /\ drained[1].timestamp = IsoFormat(now)
\* ---------------------------------------------------------------- C34
\* C34: No id is marked processed without its event being admitted: when a
\* pass is over, also one in which process_webhook_data or add_live_messages
\* raised, total_conversations is the number of ids in processed_request_ids
\* and every id in the set is the id of an event that was put in the live list.
C34_ProcessedMeansAdmitted ==
    poll.pc = "sleep" =>
        /\ stats.total_conversations = Cardinality(processed_request_ids)
        /\ \A id \in processed_request_ids : \E a \in admitted : a.ev.id = id
\* ---------------------------------------------------------------- C35
\* C35: In every reachable state the ids of the events in the live list are
\* pairwise distinct and each of them is in processed_request_ids.
C35_LiveIdsDistinctAndProcessed ==
    /\ NoRepeat([i \in 1..Len(live_messages) |-> live_messages[i].id])
    /\ Ids(live_messages) \subseteq processed_request_ids

\* the live list holds two events that one pass admitted together
C35_Witness ==
    /\ Len(live_messages) = 2
    /\ batch = live_messages
\* ---------------------------------------------------------------- C36
\* C36: A webhook call that answers its caller with an error has enqueued
\* nothing: when webhook_conversation or webhook_ai_response ends with an
\* error response, live_requests is as it was before the call.
C36_ErrorMeansNotEnqueued ==
    [][(posts' = posts + 1 /\ last_response'[2] # 200) =>
          live_requests' = live_requests]_vars
====
